---- MODULE Spec2Model ----
(***************************************************************************)
(* Model of scripts/check_i18n.py: the translation-key cross-checker.      *)
(*                                                                         *)
(* Text is a sequence of code points, so that the regular expression of    *)
(* find_tr_keys is modelled by what it does on characters and sorted() by  *)
(* the code-point order of Python strings.  The file system is the input   *)
(* of a run: the kind of the two paths, the files os.walk yields (in the   *)
(* order it yields them) and the entries os.listdir returns (in its        *)
(* order).  A run is followed by a second run on the same inputs.          *)
(***************************************************************************)
EXTENDS Integers, Sequences, FiniteSets, TLC

VARIABLES
    srcKind,     \* "absent" | "file" | "dir": what <cwd>/src is
    langKind,    \* "absent" | "file" | "dir": what <cwd>/assets/lang is
    srcFiles,    \* the files under src, in os.walk order
    langFiles,   \* the entries of assets/lang, in os.listdir order
    pc,          \* "main" | "walk" | "langs" | "done"
    walk_i,      \* find_tr_keys: index of the next file of the walk
    keys,        \* find_tr_keys: the local set `keys`
    findCalls,   \* number of calls of find_tr_keys in this run
    used_keys,   \* check_langs: the local `used_keys`
    lang_files,  \* check_langs: the local list `lang_files` (entry indices)
    lang_j,      \* check_langs: index of the next element of lang_files
    out,         \* the lines printed on standard output, in order
    opened,      \* the files open() was called on in this run
    exitStatus,  \* -1 while running, then the process exit status
    uncaught,    \* TRUE iff an exception reached the top level
    run,         \* 1 for the first run, 2 for the run repeated on the same inputs
    prevOut      \* the output of the first run, kept for the second

vars == <<srcKind, langKind, srcFiles, langFiles, pc, walk_i, keys, findCalls,
          used_keys, lang_files, lang_j, out, opened, exitStatus, uncaught,
          run, prevOut>>

inputs == <<srcKind, langKind, srcFiles, langFiles>>

----------------------------------------------------------------------------
(* Bounds of the model *)

MaxWs == 1      \* longest whitespace run put into a gap of a generated call
MaxSrc == 3     \* most files in the source tree
MaxLang == 3    \* most entries in the localization directory

----------------------------------------------------------------------------
(* Characters of the pattern  \.tr\s*\(\s*["\']([^"\']+)["\']\s*\)  *)

DOT == 46
CH_t == 116
CH_r == 114
LPAREN == 40
RPAREN == 41
DQUOTE == 34
SQUOTE == 39
NEWLINE == 10
SPACE == 32

Quotes == {DQUOTE, SQUOTE}

\* \s of a str pattern, on the ASCII range
IsSpace(c) == c \in (9..13) \cup (28..32)

Range(s) == {s[n] : n \in 1..Len(s)}

----------------------------------------------------------------------------
(* The regular expression engine on one text *)

\* \s* from position p: the first position >= p that holds no whitespace
RECURSIVE SkipSpace(_, _)
SkipSpace(s, p) ==
    IF p <= Len(s) /\ IsSpace(s[p]) THEN SkipSpace(s, p + 1) ELSE p

\* [^"\']+ from position p: the first position >= p that holds a quote
RECURSIVE KeyEnd(_, _)
KeyEnd(s, p) ==
    IF p <= Len(s) /\ s[p] \notin Quotes THEN KeyEnd(s, p + 1) ELSE p

NoMatch == [ok |-> FALSE, key |-> <<>>, end |-> 0]

\* the pattern with the  \s*\)  after the closing quote left out
MatchAtAnyTail(s, i) ==
    IF ~(i + 2 <= Len(s) /\ s[i] = DOT /\ s[i + 1] = CH_t /\ s[i + 2] = CH_r)
    THEN NoMatch
    ELSE LET p == SkipSpace(s, i + 3) IN
         IF p > Len(s) \/ s[p] # LPAREN THEN NoMatch
         ELSE LET q == SkipSpace(s, p + 1) IN
              IF q > Len(s) \/ s[q] \notin Quotes THEN NoMatch
              ELSE LET e == KeyEnd(s, q + 1) IN
                   IF e = q + 1 \/ e > Len(s) THEN NoMatch
                   ELSE [ok |-> TRUE, key |-> SubSeq(s, q + 1, e - 1), end |-> e]

\* the pattern with the \s* between `.tr` and `(` and after `(` left out
MatchAtNoSpace(s, i) ==
    IF ~(i + 2 <= Len(s) /\ s[i] = DOT /\ s[i + 1] = CH_t /\ s[i + 2] = CH_r)
    THEN NoMatch
    ELSE LET p == i + 3 IN
         IF p > Len(s) \/ s[p] # LPAREN THEN NoMatch
         ELSE LET q == p + 1 IN
              IF q > Len(s) \/ s[q] \notin Quotes THEN NoMatch
              ELSE LET e == KeyEnd(s, q + 1) IN
                   IF e = q + 1 \/ e > Len(s) THEN NoMatch
                   ELSE LET c == SkipSpace(s, e + 1) IN
                        IF c > Len(s) \/ s[c] # RPAREN THEN NoMatch
                        ELSE [ok |-> TRUE, key |-> SubSeq(s, q + 1, e - 1),
                              end |-> c]

\* the match of the pattern that starts at position i, if there is one.
\* No step of the pattern can give characters back: `(` and the quotes are
\* not whitespace, and the key runs to the first quote.
MatchAt(s, i) ==
    IF ~(i + 2 <= Len(s) /\ s[i] = DOT /\ s[i + 1] = CH_t /\ s[i + 2] = CH_r)
    THEN NoMatch
    ELSE LET p == SkipSpace(s, i + 3) IN
         IF p > Len(s) \/ s[p] # LPAREN THEN NoMatch
         ELSE LET q == SkipSpace(s, p + 1) IN
              IF q > Len(s) \/ s[q] \notin Quotes THEN NoMatch
              ELSE LET e == KeyEnd(s, q + 1) IN
                   IF e = q + 1 \/ e > Len(s) THEN NoMatch
                   ELSE LET c == SkipSpace(s, e + 1) IN
                        IF c > Len(s) \/ s[c] # RPAREN THEN NoMatch
                        ELSE [ok |-> TRUE, key |-> SubSeq(s, q + 1, e - 1),
                              end |-> c]

\* pattern.findall(content): group 1 of the leftmost matches, none overlapping
RECURSIVE FindAllFrom(_, _)
FindAllFrom(s, pos) ==
    IF pos > Len(s) THEN <<>>
    ELSE LET m == MatchAt(s, pos) IN
         IF m.ok THEN <<m.key>> \o FindAllFrom(s, m.end + 1)
         ELSE FindAllFrom(s, pos + 1)

FindAll(s) == FindAllFrom(s, 1)

----------------------------------------------------------------------------
(* sorted() on a set of strings *)

\* a < b for Python strings: code point by code point, a proper prefix first
RECURSIVE LexLess(_, _)
LexLess(a, b) ==
    IF b = <<>> THEN FALSE
    ELSE IF a = <<>> THEN TRUE
    ELSE IF a[1] # b[1] THEN a[1] < b[1]
    ELSE LexLess(Tail(a), Tail(b))

RECURSIVE Ascending(_)
Ascending(S) ==
    IF S = {} THEN <<>>
    ELSE LET m == CHOOSE x \in S : \A y \in S \ {x} : LexLess(x, y)
         IN <<m>> \o Ascending(S \ {m})

RECURSIVE Descending(_)
Descending(S) ==
    IF S = {} THEN <<>>
    ELSE LET m == CHOOSE x \in S : \A y \in S \ {x} : LexLess(y, x)
         IN <<m>> \o Descending(S \ {m})

\* iterating the set itself: an order that differs from one process to the next
HashOrder(S) == IF run = 1 THEN Ascending(S) ELSE Descending(S)

SortedSeq(S) == Ascending(S)

----------------------------------------------------------------------------
(* The inputs of a run: source texts and localization files *)

\* a run of n whitespace characters: line break, blank, line break, ...
WsRun(n) == [x \in 1..n |-> IF x % 2 = 1 THEN NEWLINE ELSE SPACE]

Q(q) == IF q = 0 THEN <<>> ELSE <<q>>

KeyK == <<107>>                 \* k
KeyKJ == <<107, 46, 106>>       \* k.j
KeyE == <<101>>                 \* e
KeyApos == <<107, 39, 106>>     \* k'j
KeyParen == <<41>>              \* )

\* text put before a call: nothing, a receiver, the letters of a broken
\* `.t`, a call left open inside its literal, a whole call and a blank
Prefixes ==
    { <<>>,
      <<119>>,
      <<DOT, CH_t>>,
      <<DOT, CH_t, CH_r, LPAREN, DQUOTE, 120>>,
      <<DOT, CH_t, CH_r, LPAREN, SQUOTE, 107, SQUOTE, RPAREN, SPACE>> }

\* what follows the closing quote and its whitespace: `)`, nothing, `,x)`
Tails == { <<RPAREN>>, <<>>, <<44, 120, RPAREN>> }

\* a call-shaped piece of text:  pre .tr ws1 ( ws2 q1 key q2 ws3 tail
Calls ==
    [pre : Prefixes, ws1 : 0..MaxWs, ws2 : 0..MaxWs, ws3 : 0..MaxWs,
     q1 : Quotes, key : {KeyK, KeyKJ, <<>>, KeyApos, KeyParen},
     q2 : Quotes \cup {0}, tail : Tails]

Render(c) ==
    c.pre \o <<DOT, CH_t, CH_r>> \o WsRun(c.ws1) \o <<LPAREN>> \o WsRun(c.ws2)
          \o Q(c.q1) \o c.key \o Q(c.q2) \o WsRun(c.ws3) \o c.tail

RECURSIVE Text(_)
Text(segs) == IF segs = <<>> THEN <<>> ELSE Render(Head(segs)) \o Text(Tail(segs))

\*  .tr("k")
CallK ==
    [pre |-> <<>>, ws1 |-> 0, ws2 |-> 0, ws3 |-> 0, q1 |-> DQUOTE, key |-> KeyK,
     q2 |-> DQUOTE, tail |-> <<RPAREN>>]

\*  w.tr( 'k.j' )  with the gaps inside the parentheses on MaxWs characters
CallKJ ==
    [pre |-> <<119>>, ws1 |-> 0, ws2 |-> MaxWs, ws3 |-> MaxWs, q1 |-> SQUOTE,
     key |-> KeyKJ, q2 |-> SQUOTE, tail |-> <<RPAREN>>]

\* a file of the source tree: rs is file.endswith(".rs"), readable is whether
\* open() and read() succeed, segs is what the text is made of
PlainSrc ==
    { [rs |-> FALSE, readable |-> TRUE, segs |-> <<CallK>>],
      [rs |-> TRUE, readable |-> TRUE, segs |-> <<>>],
      [rs |-> TRUE, readable |-> TRUE, segs |-> <<CallK>>],
      [rs |-> TRUE, readable |-> TRUE, segs |-> <<CallKJ, CallK, CallKJ>>],
      [rs |-> TRUE, readable |-> FALSE, segs |-> <<CallKJ, CallK>>] }

RichSrc == { [rs |-> TRUE, readable |-> TRUE, segs |-> <<c>>] : c \in Calls }

\* an entry of the localization directory: json is f.endswith(".json"),
\* load is what open() and json.load() do, defined the top-level keys
LangChoices ==
    { [json |-> FALSE, load |-> "ok", defined |-> {KeyK}],
      [json |-> TRUE, load |-> "invalid", defined |-> {}],
      [json |-> TRUE, load |-> "unreadable", defined |-> {KeyK}],
      [json |-> TRUE, load |-> "ok", defined |-> {}],
      [json |-> TRUE, load |-> "ok", defined |-> {KeyK, KeyKJ}],
      [json |-> TRUE, load |-> "ok", defined |-> {KeyE, KeyK, KeyApos}] }

SeqsUpTo(S, n) == UNION {[1..m -> S] : m \in 0..n}

Kinds == {"absent", "file", "dir"}

\* a line of standard output
Line(kind, file, key, n) == [kind |-> kind, file |-> file, key |-> key, n |-> n]

FatalLine == Line("fatal", 0, <<>>, 0)
ReadErrorLine(i) == Line("read_error", i, <<>>, 0)
HeaderLine(n) == Line("header", 0, <<>>, n)
CheckingLine(f) == Line("checking", f, <<>>, 0)
CheckErrorLine(f) == Line("check_error", f, <<>>, 0)
MissingHeader == Line("missing", 0, <<>>, 0)
NoMissingLine == Line("no_missing", 0, <<>>, 0)
OrphanHeader == Line("orphan", 0, <<>>, 0)
NoOrphanLine == Line("no_orphan", 0, <<>>, 0)
ItemLine(k) == Line("item", 0, k, 0)

Fresh ==
    /\ pc = "main"
    /\ walk_i = 1
    /\ keys = {}
    /\ findCalls = 0
    /\ used_keys = {}
    /\ lang_files = <<>>
    /\ lang_j = 1
    /\ out = <<>>
    /\ opened = {}
    /\ exitStatus = -1
    /\ uncaught = FALSE

\* the listings the source tree takes while the localization directory varies
SrcFixed ==
    { <<>>,
      <<[rs |-> TRUE, readable |-> FALSE, segs |-> <<CallKJ, CallK>>],
        [rs |-> TRUE, readable |-> TRUE, segs |-> <<CallK>>]>>,
      <<[rs |-> TRUE, readable |-> TRUE, segs |-> <<CallKJ, CallK, CallKJ>>],
        [rs |-> FALSE, readable |-> TRUE, segs |-> <<CallK>>]>> }

\* the listings the localization directory takes while the source tree varies
LangFixed ==
    { <<>>,
      <<[json |-> TRUE, load |-> "ok", defined |-> {KeyK}],
        [json |-> TRUE, load |-> "invalid", defined |-> {}],
        [json |-> TRUE, load |-> "ok", defined |-> {KeyE, KeyK, KeyApos}]>> }

\* the file system a run starts on: both directories there, with the source
\* tree or the localization directory ranging over its listings or with one
\* source file made of one generated call; or a path that is no directory
Init ==
    /\ \/ /\ srcKind = "dir" /\ langKind = "dir"
          /\ \/ /\ srcFiles \in SeqsUpTo(PlainSrc, MaxSrc)
                /\ langFiles \in LangFixed
             \/ /\ srcFiles \in SrcFixed
                /\ langFiles \in SeqsUpTo(LangChoices, MaxLang)
             \/ /\ srcFiles \in [1..1 -> RichSrc]
                /\ langFiles = <<[json |-> TRUE, load |-> "ok", defined |-> {KeyK}]>>
       \/ /\ srcKind \in Kinds /\ langKind \in Kinds
          /\ srcKind # "dir" \/ langKind # "dir"
          /\ srcFiles \in (IF srcKind = "dir" THEN SeqsUpTo(PlainSrc, 1) ELSE {<<>>})
          /\ langFiles \in (IF langKind = "dir" THEN SeqsUpTo(LangChoices, 1) ELSE {<<>>})
    /\ Fresh
    /\ run = 1
    /\ prevOut = <<>>

----------------------------------------------------------------------------
(* find_tr_keys *)

\* what os.walk(directory) yields: nothing unless the path is a directory
\* (os.walk swallows the error of scanning anything else)
Walk == IF srcKind = "dir" THEN srcFiles ELSE <<>>

\* the loop of find_tr_keys with the try around the whole loop: the first
\* unreadable file ends the walk
ScanFileAbort ==
    /\ pc = "walk"
    /\ walk_i <= Len(Walk)
    /\ LET f == Walk[walk_i] IN
       IF ~f.rs
       THEN /\ walk_i' = walk_i + 1
            /\ UNCHANGED <<keys, out, opened>>
       ELSE /\ opened' = opened \cup {<<"src", walk_i>>}
            /\ IF f.readable
               THEN /\ keys' = keys \cup Range(FindAll(Text(f.segs)))
                    /\ walk_i' = walk_i + 1
                    /\ out' = out
               ELSE /\ out' = Append(out, ReadErrorLine(walk_i))
                    /\ walk_i' = Len(Walk) + 1
                    /\ keys' = keys
    /\ UNCHANGED <<inputs, pc, findCalls, used_keys, lang_files, lang_j,
                   exitStatus, uncaught, run, prevOut>>

\* one file of the walk: skipped unless it ends in ".rs"; read and searched,
\* every match added to keys; a failure of open() or read() is printed with
\* the path and the walk goes on
ScanFile ==
    /\ pc = "walk"
    /\ walk_i <= Len(Walk)
    /\ LET f == Walk[walk_i] IN
       IF ~f.rs
       THEN UNCHANGED <<keys, out, opened>>
       ELSE /\ opened' = opened \cup {<<"src", walk_i>>}
            /\ IF f.readable
               THEN /\ keys' = keys \cup Range(FindAll(Text(f.segs)))
                    /\ out' = out
               ELSE /\ out' = Append(out, ReadErrorLine(walk_i))
                    /\ keys' = keys
    /\ walk_i' = walk_i + 1
    /\ UNCHANGED <<inputs, pc, findCalls, used_keys, lang_files, lang_j,
                   exitStatus, uncaught, run, prevOut>>

----------------------------------------------------------------------------
(* check_langs *)

\* [f for f in os.listdir(lang_dir) if f.endswith(".json")], as entry indices
RECURSIVE JsonEntries(_)
JsonEntries(n) ==
    IF n = 0 THEN <<>>
    ELSE JsonEntries(n - 1) \o (IF langFiles[n].json THEN <<n>> ELSE <<>>)

\* find_tr_keys returns; the header is printed; the directory is listed.
\* os.listdir raises on a path that is not a directory, outside any try.
Header ==
    /\ pc = "walk"
    /\ walk_i > Len(Walk)
    /\ used_keys' = keys
    /\ out' = Append(out, HeaderLine(Cardinality(keys)))
    /\ IF langKind = "dir"
       THEN /\ lang_files' = JsonEntries(Len(langFiles))
            /\ lang_j' = 1
            /\ pc' = "langs"
            /\ UNCHANGED <<exitStatus, uncaught>>
       ELSE /\ uncaught' = TRUE
            /\ exitStatus' = 1
            /\ pc' = "done"
            /\ UNCHANGED <<lang_files, lang_j>>
    /\ UNCHANGED <<inputs, walk_i, keys, findCalls, opened, run, prevOut>>

MissingSwapped(used, defined) == defined \ used

Missing(used, defined) == used \ defined

Extra(used, defined) == defined \ used

Items(ks) == [n \in 1..Len(ks) |-> ItemLine(ks[n])]

\* the two sections printed for a file that loaded
Report(missing, extra) ==
    (IF missing # {}
     THEN <<MissingHeader>> \o Items(SortedSeq(missing))
     ELSE <<NoMissingLine>>)
    \o
    (IF extra # {}
     THEN <<OrphanHeader>> \o Items(SortedSeq(extra))
     ELSE <<NoOrphanLine>>)

\* the loop of check_langs with the try around the whole loop: the first
\* file that fails to load ends the loop
CheckLangAbort ==
    /\ pc = "langs"
    /\ lang_j <= Len(lang_files)
    /\ LET name == lang_files[lang_j]
           f == langFiles[name]
       IN /\ opened' = opened \cup {<<"lang", name>>}
          /\ IF f.load = "ok"
             THEN /\ out' = Append(out, CheckingLine(name))
                              \o Report(Missing(used_keys, f.defined),
                                        Extra(used_keys, f.defined))
                  /\ lang_j' = lang_j + 1
             ELSE /\ out' = out \o <<CheckingLine(name), CheckErrorLine(name)>>
                  /\ lang_j' = Len(lang_files) + 1
    /\ UNCHANGED <<inputs, pc, walk_i, keys, findCalls, used_keys, lang_files,
                   exitStatus, uncaught, run, prevOut>>

\* the loop body with the differences taken in place (used_keys -= defined)
CheckLangInPlace ==
    /\ pc = "langs"
    /\ lang_j <= Len(lang_files)
    /\ LET name == lang_files[lang_j]
           f == langFiles[name]
       IN /\ opened' = opened \cup {<<"lang", name>>}
          /\ IF f.load = "ok"
             THEN /\ out' = Append(out, CheckingLine(name))
                              \o Report(Missing(used_keys, f.defined),
                                        Extra(used_keys, f.defined))
                  /\ used_keys' = Missing(used_keys, f.defined)
             ELSE /\ out' = out \o <<CheckingLine(name), CheckErrorLine(name)>>
                  /\ used_keys' = used_keys
    /\ lang_j' = lang_j + 1
    /\ UNCHANGED <<inputs, pc, walk_i, keys, findCalls, lang_files,
                   exitStatus, uncaught, run, prevOut>>

\* one localization file: the checking line, then the file is loaded and its
\* two sections are printed; a failure of open() or json.load() is printed
\* with the file name and the loop goes on
CheckLang ==
    /\ pc = "langs"
    /\ lang_j <= Len(lang_files)
    /\ LET name == lang_files[lang_j]
           f == langFiles[name]
       IN /\ opened' = opened \cup {<<"lang", name>>}
          /\ IF f.load = "ok"
             THEN out' = Append(out, CheckingLine(name))
                           \o Report(Missing(used_keys, f.defined),
                                     Extra(used_keys, f.defined))
             ELSE out' = out \o <<CheckingLine(name), CheckErrorLine(name)>>
    /\ lang_j' = lang_j + 1
    /\ UNCHANGED <<inputs, pc, walk_i, keys, findCalls, used_keys, lang_files,
                   exitStatus, uncaught, run, prevOut>>

\* check_langs returns and the script ends
Finish ==
    /\ pc = "langs"
    /\ lang_j > Len(lang_files)
    /\ pc' = "done"
    /\ exitStatus' = 0
    /\ UNCHANGED <<inputs, walk_i, keys, findCalls, used_keys, lang_files,
                   lang_j, out, opened, uncaught, run, prevOut>>

----------------------------------------------------------------------------
(* the script *)

\* `and` in the place of `or`
BothPathsMissing == srcKind = "absent" /\ langKind = "absent"

\* not os.path.exists(src) or not os.path.exists(langs)
PathMissing == srcKind = "absent" \/ langKind = "absent"

\* the existence check, then the call of check_langs, which calls
\* find_tr_keys first
Main ==
    /\ pc = "main"
    /\ IF PathMissing
       THEN /\ out' = Append(out, FatalLine)
            /\ exitStatus' = 1
            /\ pc' = "done"
            /\ UNCHANGED <<walk_i, keys, findCalls>>
       ELSE /\ pc' = "walk"
            /\ findCalls' = findCalls + 1
            /\ keys' = {}
            /\ walk_i' = 1
            /\ UNCHANGED <<out, exitStatus>>
    /\ UNCHANGED <<inputs, used_keys, lang_files, lang_j, opened, uncaught,
                   run, prevOut>>

\* the script is run again on the same file system
Rerun ==
    /\ pc = "done"
    /\ run = 1
    /\ run' = 2
    /\ prevOut' = out
    /\ pc' = "main"
    /\ walk_i' = 1
    /\ keys' = {}
    /\ findCalls' = 0
    /\ used_keys' = {}
    /\ lang_files' = <<>>
    /\ lang_j' = 1
    /\ out' = <<>>
    /\ opened' = {}
    /\ exitStatus' = -1
    /\ uncaught' = FALSE
    /\ UNCHANGED inputs

Next == Main \/ ScanFile \/ Header \/ CheckLang \/ Finish \/ Rerun

Spec == Init /\ [][Next]_vars

----------------------------------------------------------------------------
(* Reading the output back *)

PathAbsent == srcKind = "absent" \/ langKind = "absent"

\* the positions of out that hold a line of the given kind
KindAt(kind) == {x \in 1..Len(out) : out[x].kind = kind}

\* the distinct keys the readable ".rs" files of the walk hold, file by file
KeysOfFile(f) == Range(FindAll(Text(f.segs)))

ReadableUpTo(n) == {x \in 1..n : Walk[x].rs /\ Walk[x].readable}

UnreadableUpTo(n) == {x \in 1..n : Walk[x].rs /\ ~Walk[x].readable}

ExpectedUsed == UNION {KeysOfFile(Walk[x]) : x \in ReadableUpTo(Len(Walk))}

\* the entries of the localization directory whose loop iteration is over
Processed == {lang_files[x] : x \in 1..(lang_j - 1)}

\* the lines of out from the checking line of entry n up to the next checking
\* line (or the end of out); <<>> if entry n has no checking line
Block(n) ==
    LET at == {x \in 1..Len(out) : out[x] = CheckingLine(n)} IN
    IF at = {} THEN <<>>
    ELSE LET first == CHOOSE x \in at : \A y \in at : x <= y
             later == {x \in (first + 1)..Len(out) : out[x].kind = "checking"}
             last == IF later = {} THEN Len(out)
                     ELSE (CHOOSE x \in later : \A y \in later : x <= y) - 1
         IN SubSeq(out, first, last)

\* the position in block b of the line that opens its second section
SecondSection(b) ==
    LET at == {x \in 1..Len(b) : b[x].kind \in {"orphan", "no_orphan"}} IN
    IF at = {} THEN 0 ELSE CHOOSE x \in at : \A y \in at : x <= y

\* the keys listed in the first and in the second section of block b
ReportedMissing(b) ==
    LET m == SecondSection(b) IN {b[x].key : x \in {y \in 2..(m - 1) : b[y].kind = "item"}}

ReportedExtra(b) ==
    LET m == SecondSection(b) IN {b[x].key : x \in {y \in (m + 1)..Len(b) : b[y].kind = "item"}}

\* block b is a complete report: checking, first section, second section
CompleteReport(b) ==
    LET m == SecondSection(b) IN
    /\ Len(b) >= 3
    /\ b[1].kind = "checking"
    /\ m >= 3
    /\ \/ b[2].kind = "no_missing" /\ m = 3
       \/ b[2].kind = "missing" /\ m > 3
            /\ \A x \in 3..(m - 1) : b[x].kind = "item"
    /\ \/ b[m].kind = "no_orphan" /\ Len(b) = m
       \/ b[m].kind = "orphan" /\ Len(b) > m
            /\ \A x \in (m + 1)..Len(b) : b[x].kind = "item"

\* the item lines of b between positions lo and hi are in ascending order
ItemsSorted(b, lo, hi) ==
    \A x \in lo..(hi - 1) : LexLess(b[x].key, b[x + 1].key)

----------------------------------------------------------------------------
(* C3 *)

\* C3: for every localization file that loads as a JSON object, the keys
\* reported missing are used minus defined and the keys reported as orphans
\* are defined minus used; the two are disjoint, used is (used and defined)
\* plus missing, defined is (used and defined) plus extra, and with no key
\* used every defined key is an orphan and none is missing.
C3_SetDifferences ==
    pc \in {"langs", "done"} =>
        \A n \in Processed :
            langFiles[n].load = "ok" =>
                LET b == Block(n)
                    defined == langFiles[n].defined
                    missing == ReportedMissing(b)
                    extra == ReportedExtra(b)
                IN /\ CompleteReport(b)
                   /\ missing = used_keys \ defined
                   /\ extra = defined \ used_keys
                   /\ missing \cap extra = {}
                   /\ used_keys = (used_keys \cap defined) \cup missing
                   /\ defined = (used_keys \cap defined) \cup extra
                   /\ used_keys = {} => missing = {} /\ extra = defined

\* a finished run in which a file had both a missing key and orphan keys
C3_Witness ==
    /\ pc = "done"
    /\ exitStatus = 0
    /\ \E n \in Processed :
          /\ langFiles[n].load = "ok"
          /\ ReportedMissing(Block(n)) = {KeyKJ}
          /\ ReportedExtra(Block(n)) = {KeyE, KeyApos}

----------------------------------------------------------------------------
(* C4 *)

\* C4: a localization file that cannot be read or is not valid JSON gets its
\* checking line and an error line that names it, and no missing-keys or
\* orphan-keys section; every other ".json" entry of the directory, before or
\* after it, gets its complete report, and at the end of the run every
\* ".json" entry has been handled.
C4_LangErrorSkipped ==
    /\ pc \in {"langs", "done"} =>
          \A n \in Processed :
              IF langFiles[n].load = "ok"
              THEN /\ CompleteReport(Block(n))
                   /\ ReportedMissing(Block(n)) = ExpectedUsed \ langFiles[n].defined
                   /\ ReportedExtra(Block(n)) = langFiles[n].defined \ ExpectedUsed
              ELSE Block(n) = <<CheckingLine(n), CheckErrorLine(n)>>
    /\ (pc = "done" /\ ~PathAbsent /\ langKind = "dir") =>
          /\ exitStatus = 0
          /\ Processed = {n \in 1..Len(langFiles) : langFiles[n].json}

\* a finished run in which the file between two reported files failed to
\* load
C4_Witness ==
    /\ pc = "done"
    /\ Len(lang_files) = 3
    /\ langFiles[lang_files[1]].load = "ok"
    /\ langFiles[lang_files[2]].load = "invalid"
    /\ langFiles[lang_files[3]].load = "ok"
    /\ ReportedExtra(Block(lang_files[1])) # {}
    /\ ReportedMissing(Block(lang_files[3])) # {}

----------------------------------------------------------------------------
(* C5 *)

\* C5: a source file that cannot be read is reported with its path and
\* contributes no key; the walk goes on, so that the set returned is the
\* union of the keys of the ".rs" files that were read, wherever the failing
\* file falls in the walk.
C5_SourceErrorSkipped ==
    /\ pc = "walk" =>
          /\ keys = UNION {KeysOfFile(Walk[x]) : x \in ReadableUpTo(walk_i - 1)}
          /\ \A x \in 1..Len(out) : out[x].kind = "read_error"
          /\ {out[x].file : x \in 1..Len(out)} = UnreadableUpTo(walk_i - 1)
          /\ Len(out) = Cardinality(UnreadableUpTo(walk_i - 1))
    /\ (pc \in {"langs", "done"} /\ findCalls = 1) =>
          /\ used_keys = ExpectedUsed
          /\ {out[x].file : x \in KindAt("read_error")} = UnreadableUpTo(Len(Walk))
          /\ Cardinality(KindAt("read_error")) = Cardinality(UnreadableUpTo(Len(Walk)))

\* find_tr_keys has returned the keys of the files read before and after an
\* unreadable one
C5_Witness ==
    /\ pc = "langs"
    /\ Len(Walk) = 3
    /\ Walk[1].rs /\ Walk[1].readable /\ KeysOfFile(Walk[1]) = {KeyK}
    /\ Walk[2].rs /\ ~Walk[2].readable
    /\ Walk[3].rs /\ Walk[3].readable /\ KeysOfFile(Walk[3]) = {KeyK, KeyKJ}
    /\ used_keys = {KeyK, KeyKJ}
    /\ out[1] = ReadErrorLine(2)

----------------------------------------------------------------------------
(* C6 *)

\* C6: if the source directory or the localization directory does not exist
\* when the program starts, the program prints the error and ends with exit
\* status 1 before any scanning: no file is opened, find_tr_keys is not
\* called, and neither the header nor any per-file line is printed.
C6_MissingDirectoryIsFatal ==
    PathAbsent =>
        /\ pc \in {"main", "done"}
        /\ opened = {}
        /\ findCalls = 0
        /\ KindAt("header") = {} /\ KindAt("checking") = {}
        /\ pc = "done" => exitStatus = 1 /\ ~uncaught /\ out = <<FatalLine>>

\* a run ended by the existence check although the source directory is there
C6_Witness ==
    /\ pc = "done"
    /\ srcKind = "dir" /\ Len(srcFiles) = 1
    /\ langKind = "absent"
    /\ exitStatus = 1

----------------------------------------------------------------------------
(* C7 *)

\* C7: whenever both required input paths exist the run ends with exit status
\* 0 and no exception reaches the top level.
C7_ExitZeroWhenPathsExist ==
    (pc = "done" /\ ~PathAbsent) => exitStatus = 0 /\ ~uncaught

----------------------------------------------------------------------------
(* C8 *)

\* the first position >= x of out that holds no item line
RECURSIVE ItemsEnd(_)
ItemsEnd(x) ==
    IF x <= Len(out) /\ out[x].kind = "item" THEN ItemsEnd(x + 1) ELSE x

\* a section that starts at position x of out: the confirmation line if the
\* set is empty, else the list header and a sorted list of at least one item.
\* The position after the section, 0 if there is no such section at x.
AfterSection(x, listKind, noneKind, set) ==
    IF x > Len(out) THEN 0
    ELSE IF out[x].kind = noneKind THEN (IF set = {} THEN x + 1 ELSE 0)
    ELSE IF out[x].kind = listKind
         THEN LET e == ItemsEnd(x + 1) IN
              IF e > x + 1 /\ set # {} /\ ItemsSorted(out, x + 1, e - 1)
              THEN e ELSE 0
    ELSE 0

\* the lines that follow the checking line of entry n: one error line if the
\* entry did not load, else the two sections, each once, missing first
AfterBody(x, n) ==
    IF x > Len(out) THEN 0
    ELSE IF langFiles[n].load # "ok"
         THEN (IF out[x] = CheckErrorLine(n) THEN x + 1 ELSE 0)
    ELSE LET a == AfterSection(x, "missing", "no_missing",
                               ExpectedUsed \ langFiles[n].defined)
         IN IF a = 0 THEN 0
            ELSE AfterSection(a, "orphan", "no_orphan",
                              langFiles[n].defined \ ExpectedUsed)

\* out from position x on is the reports of the entries `names`, one whole
\* report after the other, in that order, and nothing else
RECURSIVE ReportsFrom(_, _)
ReportsFrom(x, names) ==
    IF names = <<>> THEN x = Len(out) + 1
    ELSE /\ x <= Len(out)
         /\ out[x] = CheckingLine(Head(names))
         /\ LET y == AfterBody(x + 1, Head(names)) IN
            y # 0 /\ ReportsFrom(y, Tail(names))

\* C8 (as amended): the header line with the count of distinct keys is printed
\* once, after the walk of the source tree is over and before any localization
\* file is opened, and only the error lines of unreadable source files precede
\* it; after it come the reports of the ".json" entries, in the order of the
\* listing and never interleaved: a checking line, then either one error line
\* (the file did not load) or exactly one of {missing list, no-missing line}
\* followed by exactly one of {orphan list, no-orphan line}; a list is printed
\* iff its set is not empty, and its entries are in sorted order.
C8_OutputOrder ==
    LET H == KindAt("header") IN
    /\ Cardinality(H) <= 1
    /\ (\E o \in opened : o[1] = "lang") => H # {}
    /\ H = {} => KindAt("checking") = {}
    /\ H # {} =>
          LET h == CHOOSE x \in H : TRUE IN
          /\ pc \in {"langs", "done"}
          /\ walk_i > Len(Walk)
          /\ \A y \in 1..(h - 1) : out[y].kind = "read_error"
          /\ out[h] = HeaderLine(Cardinality(ExpectedUsed))
          /\ ReportsFrom(h + 1, SubSeq(lang_files, 1, lang_j - 1))
    /\ (pc = "done" /\ exitStatus = 0) =>
          /\ H # {}
          /\ lang_files = JsonEntries(Len(langFiles))
          /\ lang_j = Len(lang_files) + 1

\* a finished run with an error line before the header, a file that did not
\* load and a file reported with a list of two orphans
C8_Witness ==
    /\ pc = "done"
    /\ exitStatus = 0
    /\ out[1].kind = "read_error"
    /\ out[2].kind = "header"
    /\ KindAt("check_error") # {}
    /\ \E x \in KindAt("orphan") :
          x + 2 <= Len(out) /\ out[x + 1].kind = "item" /\ out[x + 2].kind = "item"

\* C8 (as stated): the header line is the first line of the output, and every
\* localization file gets a checking line followed by exactly one of {missing
\* list, no-missing line} and exactly one of {orphan list, no-orphan line}.
C8_HeaderFirstTwoSectionsEach ==
    (pc = "done" /\ ~PathAbsent) =>
        /\ out[1].kind = "header"
        /\ \A n \in Processed : CompleteReport(Block(n))

----------------------------------------------------------------------------
(* C9 *)

----------------------------------------------------------------------------
(* C10 *)

\* every report printed so far is the comparison with the current used_keys
ReportsUseUsedKeys ==
    \A n \in Processed :
        langFiles[n].load = "ok" =>
            /\ ReportedMissing(Block(n)) = used_keys \ langFiles[n].defined
            /\ ReportedExtra(Block(n)) = langFiles[n].defined \ used_keys

\* C10: find_tr_keys is called once in a run, before the first localization
\* file is opened; no step of the loop over the localization files changes
\* used_keys, a step for a file that failed to load included, so that every
\* report is the comparison with the same set.
C10_UsedKeysComputedOnce ==
    /\ [](pc \in {"langs", "done"} => ReportsUseUsedKeys)
    /\ [][ /\ findCalls' <= 1
           /\ pc' = "langs" => findCalls' = 1
           /\ (\E o \in opened' : o[1] = "lang") => (findCalls' = 1 /\ pc' # "walk")
           /\ pc = "langs" => (used_keys' = used_keys /\ findCalls' = findCalls)
         ]_vars

\* two files were compared with a used-key set of two keys, the second one
\* after a file that failed to load, and keys were missing in both
C10_Witness ==
    /\ pc = "done"
    /\ findCalls = 1
    /\ used_keys = {KeyK, KeyKJ}
    /\ Len(lang_files) = 3
    /\ langFiles[lang_files[1]].load = "ok"
    /\ langFiles[lang_files[2]].load = "unreadable"
    /\ langFiles[lang_files[3]].load = "ok"
    /\ ReportedMissing(Block(lang_files[1])) = {KeyKJ}
    /\ ReportedMissing(Block(lang_files[3])) = {KeyK, KeyKJ}

----------------------------------------------------------------------------
(* C1 and C2: what a `.tr(...)` call with one quoted argument is *)

AllSpace(s, lo, hi) == \A x \in lo..hi : IsSpace(s[x])

NoQuote(s, lo, hi) == \A x \in lo..hi : s[x] \notin Quotes

\* the places of text s that read  .tr ( "KEY" )  with optional whitespace
\* around the parenthesis and the quoted literal, KEY being one character or
\* more, none a quote: <<start, end, KEY>>.  p is the place of `(`, q of the
\* opening quote, e of the closing quote, r of `)`.
SoleArgCalls(s) ==
    LET L == Len(s) IN
    UNION { IF s[i] = DOT /\ s[i + 1] = CH_t /\ s[i + 2] = CH_r
            THEN UNION { IF s[p] = LPAREN /\ AllSpace(s, i + 3, p - 1)
                         THEN UNION { IF s[q] \in Quotes /\ AllSpace(s, p + 1, q - 1)
                                      THEN UNION { IF s[e] \in Quotes /\ NoQuote(s, q + 1, e - 1)
                                                   THEN { <<i, r, SubSeq(s, q + 1, e - 1)>> :
                                                          r \in {x \in (e + 1)..L :
                                                                   s[x] = RPAREN
                                                                   /\ AllSpace(s, e + 1, x - 1)} }
                                                   ELSE {}
                                                   : e \in (q + 2)..L }
                                      ELSE {}
                                      : q \in (p + 1)..L }
                         ELSE {}
                         : p \in (i + 3)..L }
            ELSE {}
            : i \in 1..(L - 2) }

\* the calls of s that no call starting earlier runs into
Unobstructed(s) ==
    LET C == SoleArgCalls(s) IN
    {c \in C : ~\E d \in C : d[1] < c[1] /\ d[2] >= c[1]}

\* find_tr_keys has just returned (the header is printed, no file compared yet)
JustScanned == pc = "langs" /\ lang_j = 1 /\ run = 1

ReadTexts == {Text(Walk[x].segs) : x \in ReadableUpTo(Len(Walk))}

TrailingArgs == <<44, 120, RPAREN>>

\* the source tree is one readable file made of one generated call
OneCall == Len(srcFiles) = 1 /\ srcFiles[1] \in RichSrc

\* C1 (as amended): find_tr_keys returns only quoted literals that are the
\* sole argument of a `.tr(...)` call, and every such literal whose call no
\* earlier such call runs into; a call with further arguments after the first
\* quoted literal (`.tr("k", x)`) is not matched and contributes no key.
C1_SoleArgumentLiterals ==
    JustScanned =>
        /\ \A k \in used_keys : \E s \in ReadTexts : \E c \in SoleArgCalls(s) : c[3] = k
        /\ \A s \in ReadTexts : \A c \in Unobstructed(s) : c[3] \in used_keys
        /\ OneCall =>
              LET c == srcFiles[1].segs[1] IN
              (c.tail = TrailingArgs /\ c.pre \in {<<>>, <<119>>, <<DOT, CH_t>>})
                  => used_keys = {}

\* the scan of  w.tr("k",x)  is over
C1_Witness ==
    /\ JustScanned
    /\ OneCall
    /\ LET c == srcFiles[1].segs[1] IN
       /\ c.pre = <<119>> /\ c.key = KeyK
       /\ c.q1 = DQUOTE /\ c.q2 = DQUOTE
       /\ c.tail = TrailingArgs
    /\ used_keys = {}
    /\ out = <<HeaderLine(0)>>

\* C1 (as stated): when a call has further arguments after the first quoted
\* literal, the first quoted argument is still extracted.
C1_FirstArgumentExtracted ==
    (JustScanned /\ OneCall) =>
        LET c == srcFiles[1].segs[1] IN
        (c.tail = TrailingArgs /\ c.q2 = c.q1 /\ c.key = KeyK) => KeyK \in used_keys

\* KEY is one character or more, none of them a quote or a `)`
PlainKey(k) == k # <<>> /\ \A x \in 1..Len(k) : k[x] \notin Quotes \cup {RPAREN}

\* C2 (as amended): for every call `.tr(<q>KEY<q>)` with a single argument
\* whose KEY is not empty and holds neither a quote character nor a `)`, KEY
\* is in the set find_tr_keys returns, whatever text precedes `.tr`, whether
\* the quotes are single or double, and whatever whitespace or line breaks
\* sit between `.tr` and `(`, between `(` and the opening quote and between
\* the closing quote and `)`; a key that occurs several times, in one file or
\* in several, is there once.
C2_SingleArgumentCallsFound ==
    JustScanned =>
        /\ OneCall =>
              LET c == srcFiles[1].segs[1] IN
              (c.q2 = c.q1 /\ c.tail = <<RPAREN>> /\ PlainKey(c.key))
                  => c.key \in used_keys
        /\ ~OneCall =>
              /\ used_keys = UNION { {Walk[x].segs[y].key : y \in 1..Len(Walk[x].segs)} :
                                     x \in ReadableUpTo(Len(Walk)) }
              /\ out[Len(out)] = HeaderLine(Cardinality(used_keys))

\* a receiver, single quotes and a line break in each gap: the key is found
C2_Witness ==
    /\ JustScanned
    /\ OneCall
    /\ LET c == srcFiles[1].segs[1] IN
       /\ c.pre = <<119>> /\ c.key = KeyKJ
       /\ c.q1 = SQUOTE /\ c.q2 = SQUOTE
       /\ c.ws1 = 1 /\ c.ws2 = 1 /\ c.ws3 = 1
       /\ c.tail = <<RPAREN>>
    /\ used_keys = {KeyKJ}

\* the key k.j, in two files and three times in one of them, is counted once
C2_WitnessTwice ==
    /\ JustScanned
    /\ Len(Walk) = 2
    /\ \A x \in 1..2 : Walk[x].rs /\ Walk[x].readable /\ Len(Walk[x].segs) = 3
    /\ out = <<HeaderLine(2)>>

\* C2 (as stated): for every call `.tr(<q>KEY<q>)` with a single argument,
\* KEY is in the set find_tr_keys returns.
C2_EveryKeyFound ==
    (JustScanned /\ OneCall) =>
        LET c == srcFiles[1].segs[1] IN
        (c.q2 = c.q1 /\ c.tail = <<RPAREN>>) => c.key \in used_keys

====
